---- MODULE Spec2Model ----
(***************************************************************************)
(* Model of the clarity-decode dispatcher (packages/clarity-decode/src/    *)
(* clarity.ts): decode(input) and parseVersion(ver), of the start and end  *)
(* of the clarity-js data module, and of the clarity-js baseline module.   *)
(*                                                                         *)
(* Strings are sequences of one-character strings.  A JavaScript number is *)
(* a one-element tuple <<n>>; NaN is the empty tuple, so that the NaN      *)
(* results of parseInt and the comparisons on them are modelled as they    *)
(* evaluate.                                                               *)
(***************************************************************************)
EXTENDS Integers, Sequences, FiniteSets, TLC

\* decode
VARIABLES version, pc, ncalls, input, payload, heap, encoded, idx,
          jsonVersion, codeVersion, calls, console, now, error, returned
\* the data module: the calls start() and end() have made, call by call
VARIABLES lifecycle
\* the baseline module: its variables state, buffer and update, the objects
\* they refer to, the events handed to encode, and the calls made so far
VARIABLES state, buffer, update, objects, emitted, ops

decodeVars == <<version, pc, ncalls, input, payload, heap, encoded, idx,
                jsonVersion, codeVersion, calls, console, now, error, returned>>
dataVars == <<lifecycle>>
baselineVars == <<state, buffer, update, objects, emitted, ops>>

vars == <<decodeVars, dataVars, baselineVars>>

(* ------------------------------ bounds --------------------------------- *)

\* tokens of one payload, a and p together
MaxLen == 2
\* decode calls made one after the other by a caller
MaxCalls == 2
\* dot-separated parts of a version string
MaxParts == 4
\* calls of start and end of the data module
MaxLifecycle == 6
\* calls of the functions of the baseline module
MaxOps == 5

(* --------------------------- JavaScript numbers ------------------------ *)

NaN == <<>>
Num(n) == <<n>>
IsNaN(x) == x = NaN

\* x !== y on numbers: NaN is unequal to everything, itself included
StrictNotEqual(x, y) == IsNaN(x) \/ IsNaN(y) \/ x[1] # y[1]
\* x - y
Minus(x, y) == IF IsNaN(x) \/ IsNaN(y) THEN NaN ELSE Num(x[1] - y[1])
\* Math.abs(x)
MathAbs(x) == IF IsNaN(x) THEN NaN ELSE IF x[1] < 0 THEN Num(0 - x[1]) ELSE x
\* x > n: false when x is NaN
GreaterThan(x, n) == ~IsNaN(x) /\ x[1] > n

(* ------------------------------ strings -------------------------------- *)

DigitValue == ("0" :> 0) @@ ("1" :> 1) @@ ("2" :> 2) @@ ("3" :> 3) @@ ("4" :> 4) @@
              ("5" :> 5) @@ ("6" :> 6) @@ ("7" :> 7) @@ ("8" :> 8) @@ ("9" :> 9)
IsDigit(c) == c \in DOMAIN DigitValue
WhiteSpace == {" "}

\* s starts with sep at position i
StartsAt(s, sep, i) == i + Len(sep) - 1 <= Len(s) /\ SubSeq(s, i, i + Len(sep) - 1) = sep

\* String.prototype.indexOf: first position >= i where sep occurs, 0 if none
RECURSIVE IndexOf(_, _, _)
IndexOf(s, sep, i) ==
    IF i + Len(sep) - 1 > Len(s) THEN 0
    ELSE IF StartsAt(s, sep, i) THEN i
    ELSE IndexOf(s, sep, i + 1)

\* String.prototype.split with a non-empty separator
RECURSIVE split(_, _)
split(s, sep) ==
    LET k == IndexOf(s, sep, 1)
    IN IF k = 0 THEN <<s>>
       ELSE <<SubSeq(s, 1, k - 1)>> \o split(SubSeq(s, k + Len(sep), Len(s)), sep)

RECURSIVE TrimStart(_)
TrimStart(s) == IF s # <<>> /\ Head(s) \in WhiteSpace THEN TrimStart(Tail(s)) ELSE s

\* number of leading decimal digits of s
RECURSIVE LeadingDigits(_)
LeadingDigits(s) == IF s # <<>> /\ IsDigit(Head(s)) THEN 1 + LeadingDigits(Tail(s)) ELSE 0

\* value of a string of decimal digits, accumulated left to right
RECURSIVE DigitsValue(_, _)
DigitsValue(s, acc) == IF s = <<>> THEN acc ELSE DigitsValue(Tail(s), 10 * acc + DigitValue[Head(s)])

\* parseInt(s, 10): skips leading white space, reads an optional sign and the
\* longest prefix of digits, ignores the rest; NaN when there is no digit
parseInt(s) ==
    LET t == TrimStart(s)
        signed == t # <<>> /\ Head(t) \in {"+", "-"}
        u == IF signed THEN Tail(t) ELSE t
        n == LeadingDigits(u)
        v == DigitsValue(SubSeq(u, 1, n), 0)
    IN IF n = 0 THEN NaN
       ELSE IF signed /\ Head(t) = "-" THEN Num(0 - v) ELSE Num(v)

(* --------------------------- parseVersion ------------------------------ *)

Dot == <<".">>
BetaDelimiter == <<"-", "b">>
ZeroVersion == [major |-> Num(0), minor |-> Num(0), patch |-> Num(0), beta |-> Num(0)]

\* parseVersion accepting any string of three parts or more
parseVersion_atLeastThree(ver) ==
    LET parts == split(ver, Dot)
    IN IF Len(parts) >= 3
       THEN LET subparts == split(parts[3], BetaDelimiter)
            IN IF Len(subparts) = 2
               THEN [major |-> parseInt(parts[1]), minor |-> parseInt(parts[2]),
                     patch |-> parseInt(subparts[1]), beta |-> parseInt(subparts[2])]
               ELSE [major |-> parseInt(parts[1]), minor |-> parseInt(parts[2]),
                     patch |-> parseInt(parts[3]), beta |-> Num(0)]
       ELSE ZeroVersion

parseVersion(ver) ==
    LET parts == split(ver, Dot)
    IN IF Len(parts) = 3
       THEN LET subparts == split(parts[3], BetaDelimiter)
            IN IF Len(subparts) = 2
               THEN [major |-> parseInt(parts[1]), minor |-> parseInt(parts[2]),
                     patch |-> parseInt(subparts[1]), beta |-> parseInt(subparts[2])]
               ELSE [major |-> parseInt(parts[1]), minor |-> parseInt(parts[2]),
                     patch |-> parseInt(parts[3]), beta |-> Num(0)]
       ELSE ZeroVersion

\* the condition of the throw in decode
VersionMismatch(j, c) ==
    \/ StrictNotEqual(j.major, c.major)
    \/ StrictNotEqual(j.minor, c.minor)
    \/ GreaterThan(MathAbs(Minus(j.patch, c.patch)), 1)

(* ------------------------------ enums ---------------------------------- *)

Event == [Metric |-> 0, Dimension |-> 1, Upload |-> 2, Upgrade |-> 3, Baseline |-> 4,
          Timeline |-> 5, Discover |-> 6, Mutation |-> 7, Region |-> 8, Document |-> 9,
          Click |-> 10, Scroll |-> 11, Resize |-> 12, MouseMove |-> 13, MouseDown |-> 14,
          MouseUp |-> 15, MouseWheel |-> 16, DoubleClick |-> 17, TouchStart |-> 18,
          TouchEnd |-> 19, TouchMove |-> 20, TouchCancel |-> 21, Selection |-> 22,
          Page |-> 23, Tag |-> 24, Ping |-> 25, Unload |-> 26, Input |-> 27,
          Visibility |-> 28, Navigation |-> 29, Connection |-> 30, ScriptError |-> 31,
          ImageError |-> 32, Log |-> 33]

Metric == [ClientTimestamp |-> 0, Playback |-> 1, TotalBytes |-> 2, LayoutCost |-> 3,
           TotalCost |-> 4, InvokeCount |-> 5, ThreadBlockedTime |-> 6, LongTaskCount |-> 7,
           LargestPaint |-> 8, CumulativeLayoutShift |-> 9, FirstInputDelay |-> 10]

(* -------------------------- the dispatch switch ------------------------ *)

\* The case labels of the switch in decode, in source order.  A label that
\* names no member of Event evaluates to undefined and matches no numeric code.
Cases == <<
    [labels |-> {"Baseline"},    bucket |-> "baseline",   decoder |-> "data.decode"],
    [labels |-> {"Ping"},        bucket |-> "ping",       decoder |-> "data.decode"],
    [labels |-> {"Limit"},       bucket |-> "limit",      decoder |-> "data.decode"],
    [labels |-> {"Upgrade"},     bucket |-> "upgrade",    decoder |-> "data.decode"],
    [labels |-> {"Metric"},      bucket |-> "metric",     decoder |-> "data.decode"],
    [labels |-> {"Dimension"},   bucket |-> "dimension",  decoder |-> "data.decode"],
    [labels |-> {"Summary"},     bucket |-> "summary",    decoder |-> "data.decode"],
    [labels |-> {"Custom"},      bucket |-> "custom",     decoder |-> "data.decode"],
    [labels |-> {"Variable"},    bucket |-> "variable",   decoder |-> "data.decode"],
    [labels |-> {"Upload"},      bucket |-> "upload",     decoder |-> "data.decode"],
    [labels |-> {"MouseDown", "MouseUp", "MouseMove", "MouseWheel", "DoubleClick",
                 "TouchStart", "TouchCancel", "TouchEnd", "TouchMove"},
                                 bucket |-> "pointer",    decoder |-> "interaction.decode"],
    [labels |-> {"Click"},       bucket |-> "click",      decoder |-> "interaction.decode"],
    [labels |-> {"Scroll"},      bucket |-> "scroll",     decoder |-> "interaction.decode"],
    [labels |-> {"Resize"},      bucket |-> "resize",     decoder |-> "interaction.decode"],
    [labels |-> {"Selection"},   bucket |-> "selection",  decoder |-> "interaction.decode"],
    [labels |-> {"Timeline"},    bucket |-> "timeline",   decoder |-> "interaction.decode"],
    [labels |-> {"Input"},       bucket |-> "input",      decoder |-> "interaction.decode"],
    [labels |-> {"Unload"},      bucket |-> "unload",     decoder |-> "interaction.decode"],
    [labels |-> {"Visibility"},  bucket |-> "visibility", decoder |-> "interaction.decode"],
    [labels |-> {"Box"},         bucket |-> "box",        decoder |-> "layout.decode"],
    [labels |-> {"Region"},      bucket |-> "region",     decoder |-> "layout.decode"],
    [labels |-> {"Discover", "Mutation"},
                                 bucket |-> "dom",        decoder |-> "layout.decode"],
    [labels |-> {"Document"},    bucket |-> "doc",        decoder |-> "layout.decode"],
    [labels |-> {"ScriptError"}, bucket |-> "script",     decoder |-> "diagnostic.decode"],
    [labels |-> {"ImageError"},  bucket |-> "image",      decoder |-> "diagnostic.decode"],
    [labels |-> {"Log"},         bucket |-> "log",        decoder |-> "diagnostic.decode"],
    [labels |-> {"Connection"},  bucket |-> "connection", decoder |-> "performance.decode"],
    [labels |-> {"Navigation"},  bucket |-> "navigation", decoder |-> "performance.decode"] >>

Buckets == {Cases[k].bucket : k \in DOMAIN Cases}
Decoders == {Cases[k].decoder : k \in DOMAIN Cases}

\* the values of the labels of each case
CaseCodes == [k \in DOMAIN Cases |-> {Event[l] : l \in Cases[k].labels \cap DOMAIN Event}]

\* case k of the switch is taken for code c
Matches(k, c) == c \in CaseCodes[k]

\* the cases taken for code c
CasesFor(c) == {k \in DOMAIN Cases : Matches(k, c)}

\* a switch whose default falls into the first case
Switch_fallthrough(c) ==
    LET ks == CasesFor(c)
    IN IF ks = {} THEN 1 ELSE CHOOSE k \in ks : \A m \in ks : k <= m

\* the first case taken for code c; 0 is the default branch
Switch(c) ==
    LET ks == CasesFor(c)
    IN IF ks = {} THEN 0 ELSE CHOOSE k \in ks : \A m \in ks : k <= m

(* ------------------------ external collaborators ----------------------- *)

\* data.envelope: the envelope token carries the protocol version string
envelope(e) == [version |-> e[1]]

\* the category decoders: a token <<time, event, data>> becomes a typed event;
\* a metric event holds its values under the keys of Metric
DecodeToken(decoder, entry) ==
    [time |-> entry[1], event |-> entry[2],
     data |-> IF entry[2] = Event.Metric THEN (Metric.TotalBytes :> entry[3]) ELSE entry[3]]

(* ------------------------------- the sort ------------------------------ *)

\* the comparator handed to Array.prototype.sort
compare(a, b) == a[1] - b[1]

\* an insertion that also moves x past the elements that compare equal
Insert_unstable(s, x) ==
    LET lt == {0} \cup {m \in 1..Len(s) : compare(s[m], x) < 0}
        k == CHOOSE m \in lt : \A n \in lt : n <= m
    IN SubSeq(s, 1, k) \o <<x>> \o SubSeq(s, k + 1, Len(s))

\* insert x behind the last element that does not compare greater than it
Insert(s, x) ==
    LET le == {0} \cup {m \in 1..Len(s) : compare(s[m], x) <= 0}
        k == CHOOSE m \in le : \A n \in le : n <= m
    IN SubSeq(s, 1, k) \o <<x>> \o SubSeq(s, k + 1, Len(s))

\* Array.prototype.sort is stable (ECMAScript 2019): an insertion sort that
\* moves an element only past elements that compare greater
RECURSIVE sort(_)
sort(s) == IF s = <<>> THEN <<>> ELSE Insert(sort(SubSeq(s, 1, Len(s) - 1)), s[Len(s)])

\* the primary channel alone
Concat_primaryOnly(json) == json.a

\* json.p ? json.a.concat(json.p) : json.a  (an empty array is truthy)
Concat(json) == IF "p" \in DOMAIN json THEN json.a \o json.p ELSE json.a

(* ------------------------------- inputs -------------------------------- *)

\* parts joined by "."
RECURSIVE Join(_)
Join(ps) == IF Len(ps) = 1 THEN ps[1] ELSE ps[1] \o Dot \o Join(Tail(ps))

SeqsUpTo(S, n) == UNION {[1..k -> S] : k \in 0..n}

\* the version built into the running code
RunningVersion == <<"1", ".", "2", ".", "3">>

\* envelope versions of the decoded payloads: 1.2.4, 1.2.x, 1.3.3, bad
EnvelopeVersions == { <<"1", ".", "2", ".", "4">>, <<"1", ".", "2", ".", "x">>,
                      <<"1", ".", "3", ".", "3">>, <<"b", "a", "d">> }

\* character lengths of the raw input string
RawLengths == {60, 61}
Times == {1, 2}
\* 99 is no member of Event; Page is a member without a case in the switch
OtherCodes == {Event.MouseMove, Event.TouchMove, Event.Discover, Event.Mutation, Event.Page, 99}
\* TotalBytes values a producer transmits
SentBytes == {7, 60}
Tokens == {<<t, Event.Metric, b>> : t \in Times, b \in SentBytes}
          \cup {<<t, c, 0>> : t \in Times, c \in OtherCodes}

\* a raw input whose text is not JSON
Malformed == [malformed |-> TRUE]
IsMalformed(inp) == "malformed" \in DOMAIN inp.text

\* the JSON document { e, a } (k < 0) or { e, a, p }, p being s from position k + 1 on
Document(v, s, k) ==
    IF k < 0 THEN [e |-> <<v>>, a |-> s]
    ELSE [e |-> <<v>>, a |-> SubSeq(s, 1, k), p |-> SubSeq(s, k + 1, Len(s))]

RawInput(l, text) == [length |-> l, text |-> text]

\* readings of the wall clock, which Date.now() returns
Clock == {1000, 1001}

(* ------------------------------- state --------------------------------- *)

NoInput == [length |-> 0, text |-> Malformed]

Locals == /\ input = NoInput
          /\ payload = 0
          /\ encoded = <<>>
          /\ idx = 0
          /\ jsonVersion = ZeroVersion
          /\ codeVersion = ZeroVersion
          /\ calls = <<>>
          /\ error = "none"

\* JavaScript null
null == [null |-> TRUE]

\* the data module has made no call
DataInit == lifecycle = <<>>

\* the baseline module as loaded: state and buffer are null, update is false
BaselineInit ==
    /\ state = null
    /\ buffer = 0
    /\ update = FALSE
    /\ objects = <<>>
    /\ emitted = <<>>
    /\ ops = <<>>

InitWith(vs) ==
    /\ DataInit
    /\ BaselineInit
    /\ version \in vs
    /\ pc = "Idle"
    /\ ncalls = 0
    /\ heap = <<>>
    /\ console = <<>>
    /\ now = 1000
    /\ returned = <<>>
    /\ Locals

Init == InitWith({RunningVersion})

(* ------------------------------- decode -------------------------------- *)

\* the object that `payload` refers to
Payload == heap[payload]

\* a payload created with every bucket as an empty array
NewPayload_eager(h, obj) == [ref |-> Len(h) + 1, heap |-> Append(h, obj @@ [b \in Buckets |-> <<>>])]

\* a payload object kept by the module and used again by the next call
NewPayload_shared(h, obj) ==
    IF h = <<>> THEN [ref |-> 1, heap |-> <<obj>>]
    ELSE [ref |-> Len(h), heap |-> [h EXCEPT ![Len(h)] = obj @@ @]]

\* a new payload object that starts with the buckets of the previous one
NewPayload_leak(h, obj) ==
    [ref |-> Len(h) + 1, heap |-> Append(h, IF h = <<>> THEN obj ELSE obj @@ h[Len(h)])]

\* let payload: DecodedPayload = { timestamp, envelope }: a new object
NewPayload(h, obj) == [ref |-> Len(h) + 1, heap |-> Append(h, obj)]

\* decode, up to and including the sort
Decode_Parse(inp) ==
    /\ pc = "Idle"
    /\ UNCHANGED <<dataVars, baselineVars>>
    /\ ncalls' = ncalls + 1
    /\ input' = inp
    /\ IF IsMalformed(inp)
       THEN /\ pc' = "Failed"
            /\ error' = "SyntaxError"
            /\ UNCHANGED <<payload, heap, encoded, calls>>
       ELSE /\ LET json == inp.text
                   timestamp == now
                   alloc == NewPayload(heap, [timestamp |-> timestamp, envelope |-> envelope(json.e)])
               IN /\ payload' = alloc.ref
                  /\ heap' = alloc.heap
                  /\ encoded' = sort(Concat(json))
            /\ calls' = calls \o <<"data.envelope", "concat", "sort">>
            /\ pc' = "Parsed"
            /\ UNCHANGED error
    /\ idx' = 1
    /\ UNCHANGED <<version, jsonVersion, codeVersion, console, now, returned>>

\* the version check
Decode_CheckVersion ==
    /\ pc = "Parsed"
    /\ UNCHANGED <<dataVars, baselineVars>>
    /\ jsonVersion' = parseVersion(Payload.envelope.version)
    /\ codeVersion' = parseVersion(version)
    /\ IF VersionMismatch(jsonVersion', codeVersion')
       THEN pc' = "Failed" /\ error' = "Invalid version"
       ELSE pc' = "VersionChecked" /\ UNCHANGED error
    /\ UNCHANGED <<version, ncalls, input, payload, heap, encoded, idx, calls, console, now, returned>>

\* a decode that goes on to the loop without resetting the layout
Decode_Reset_skipped ==
    /\ pc = "VersionChecked"
    /\ UNCHANGED <<dataVars, baselineVars>>
    /\ pc' = "Reset"
    /\ UNCHANGED <<version, ncalls, input, payload, heap, encoded, idx, jsonVersion, codeVersion,
                   calls, console, now, error, returned>>

\* layout.reset()
Decode_Reset ==
    /\ pc = "VersionChecked"
    /\ UNCHANGED <<dataVars, baselineVars>>
    /\ calls' = Append(calls, "layout.reset")
    /\ pc' = "Reset"
    /\ UNCHANGED <<version, ncalls, input, payload, heap, encoded, idx, jsonVersion, codeVersion,
                   console, now, error, returned>>

\* a push that puts the event in front of the bucket
Push_unshift(obj, bucket, event) ==
    IF bucket \in DOMAIN obj
    THEN [obj EXCEPT ![bucket] = <<event>> \o @]
    ELSE obj @@ (bucket :> <<event>>)

\* a push that starts the bucket again
Push_assign(obj, bucket, event) ==
    IF bucket \in DOMAIN obj
    THEN [obj EXCEPT ![bucket] = <<event>>]
    ELSE obj @@ (bucket :> <<event>>)

\* a push that also stamps the payload with the time of the event
Push_stamps(obj, bucket, event) ==
    IF bucket \in DOMAIN obj
    THEN [obj EXCEPT ![bucket] = Append(@, event), !.timestamp = event.time]
    ELSE [obj EXCEPT !.timestamp = event.time] @@ (bucket :> <<event>>)

\* payload.<bucket>.push(event), the bucket created when undefined
Push(obj, bucket, event) ==
    IF bucket \in DOMAIN obj
    THEN [obj EXCEPT ![bucket] = Append(@, event)]
    ELSE obj @@ (bucket :> <<event>>)

\* a patch that adds the input length to the transmitted value
PatchMetric_increment(event, inp) ==
    [event EXCEPT !.data = (Metric.TotalBytes :> (@[Metric.TotalBytes] + inp.length)) @@ @]

\* metric.data[Data.Metric.TotalBytes] = input.length
PatchMetric(event, inp) == [event EXCEPT !.data = (Metric.TotalBytes :> inp.length) @@ @]

\* the event the case for `entry` pushes
Decoded(k, entry, inp) ==
    LET event == DecodeToken(Cases[k].decoder, entry)
    IN IF Cases[k].bucket = "metric" THEN PatchMetric(event, inp) ELSE event

\* a loop whose default branch throws
Decode_Dispatch_throws ==
    /\ pc \in {"Reset", "Dispatching"}
    /\ UNCHANGED <<dataVars, baselineVars>>
    /\ idx <= Len(encoded)
    /\ LET entry == encoded[idx]
           k == Switch(entry[2])
       IN IF k = 0
          THEN /\ pc' = "Failed"
               /\ error' = "No handler"
               /\ UNCHANGED <<heap, calls, idx>>
          ELSE /\ heap' = [heap EXCEPT ![payload] = Push(@, Cases[k].bucket, Decoded(k, entry, input))]
               /\ calls' = Append(calls, Cases[k].decoder)
               /\ idx' = idx + 1
               /\ pc' = "Dispatching"
               /\ UNCHANGED error
    /\ UNCHANGED <<version, ncalls, input, payload, encoded, jsonVersion, codeVersion, console, now,
                   returned>>

\* one iteration of the loop over the encoded tokens
Decode_Dispatch ==
    /\ pc \in {"Reset", "Dispatching"}
    /\ UNCHANGED <<dataVars, baselineVars>>
    /\ idx <= Len(encoded)
    /\ LET entry == encoded[idx]
           k == Switch(entry[2])
       IN IF k = 0
          THEN /\ console' = Append(console, entry)
               /\ calls' = Append(calls, "console.error")
               /\ UNCHANGED heap
          ELSE /\ heap' = [heap EXCEPT ![payload] = Push(@, Cases[k].bucket, Decoded(k, entry, input))]
               /\ calls' = Append(calls, Cases[k].decoder)
               /\ UNCHANGED console
    /\ idx' = idx + 1
    /\ pc' = "Dispatching"
    /\ UNCHANGED <<version, ncalls, input, payload, encoded, jsonVersion, codeVersion, now, error, returned>>

\* return payload
Decode_Return ==
    /\ pc \in {"Reset", "Dispatching"}
    /\ UNCHANGED <<dataVars, baselineVars>>
    /\ idx > Len(encoded)
    /\ returned' = Append(returned, [input |-> input, payload |-> payload])
    /\ pc' = "Done"
    /\ UNCHANGED <<version, ncalls, input, payload, heap, encoded, idx, jsonVersion, codeVersion,
                   calls, console, now, error>>

\* the caller, holding the results returned so far, is about to call decode
\* again; time may have passed
Caller_Next ==
    /\ pc \in {"Done", "Failed"}
    /\ UNCHANGED <<dataVars, baselineVars>>
    /\ ncalls < MaxCalls
    /\ pc' = "Idle"
    /\ input' = NoInput
    /\ payload' = 0
    /\ encoded' = <<>>
    /\ idx' = 0
    /\ jsonVersion' = ZeroVersion
    /\ codeVersion' = ZeroVersion
    /\ calls' = <<>>
    /\ error' = "none"
    /\ \E t \in Clock : t >= now /\ now' = t
    /\ UNCHANGED <<version, ncalls, heap, console, returned>>

\* a call of decode on a raw input of a length in ls: no JSON, or a document of
\* a version in vs with at most n tokens, p present in the documents when withP
DecodeFrom(ls, vs, toks, n, withP) ==
    /\ pc = "Idle"
    /\ \E l \in ls :
         \/ Decode_Parse(RawInput(l, Malformed))
         \/ \E v \in vs, s \in SeqsUpTo(toks, n) :
                \E k \in (0 - 1)..(IF withP THEN Len(s) ELSE 0 - 1) :
                    Decode_Parse(RawInput(l, Document(v, s, k)))

Decode == DecodeFrom(RawLengths, EnvelopeVersions, Tokens, MaxLen, TRUE)

Next == Decode \/ Decode_CheckVersion \/ Decode_Reset \/ Decode_Dispatch \/ Decode_Return

\* one decode call
Spec == Init /\ [][Next]_vars

\* tokens of one payload in a sequence of calls
MaxSeqLen == 2
SeqVersions == { <<"1", ".", "2", ".", "4">> }
SeqTokens == { <<1, Event.Metric, 7>>, <<1, Event.Page, 0>> }
DecodeSeq == DecodeFrom({60}, SeqVersions, SeqTokens, MaxSeqLen, FALSE)

NextSeq == DecodeSeq \/ Decode_CheckVersion \/ Decode_Reset \/ Decode_Dispatch \/ Decode_Return
           \/ Caller_Next

\* decode calls made one after the other
SpecSeq == Init /\ [][NextSeq]_vars

\* the version strings of at most MaxParts parts
VersionParts == { <<"1">>, <<"2">>, <<"3">>, <<"1", "0">>, <<"x">>, <<>>,
                  <<"3", "-", "b", "7">>, <<"4", "-", "b">>, <<"3", "-", "b", "7", "-", "b", "8">> }
VersionStrings == {Join(ps) : ps \in SeqsUpTo(VersionParts, MaxParts) \ {<<>>}}
RunningVersions == { RunningVersion, <<"0", ".", "0", ".", "0">>,
                     <<"1", ".", "2", ".", "2", "-", "b", "7">> }
DecodeVersion == pc = "Idle" /\ \E v \in VersionStrings : Decode_Parse(RawInput(60, Document(v, <<>>, 0 - 1)))

NextVersion == DecodeVersion \/ Decode_CheckVersion

\* the version gate of decode, over version strings of every shape
SpecVersion == InitWith(RunningVersions) /\ [][NextVersion]_vars

\* a call of decode on a document of few tokens
DecodeLive == DecodeFrom({60}, EnvelopeVersions, SeqTokens, MaxSeqLen, FALSE)

NextLive == DecodeLive \/ Decode_CheckVersion \/ Decode_Reset \/ Decode_Dispatch \/ Decode_Return

\* decode is synchronous and runs to completion: once called, it takes its
\* next step
RunToCompletion ==
    WF_vars(Decode_CheckVersion \/ Decode_Reset \/ Decode_Dispatch \/ Decode_Return)

\* one decode call that is not held up
SpecLive == Init /\ [][NextLive]_vars /\ RunToCompletion

(* ---------------------------- the data module -------------------------- *)

\* measure(fn)() calls fn
measure(fn) == fn

\* the calls start() makes, in order
start_calls == << "metric.start", measure("upload.start"), measure("target.reset"),
                 measure("metadata.start"), measure("ping.start"), measure("tag.reset"),
                 measure("upgrade.reset") >>

\* end() with the order of start()
end_calls_asStart == << "metric.end", measure("upload.end"), measure("target.reset"),
                       measure("metadata.end"), measure("ping.end"), measure("tag.reset"),
                       measure("upgrade.reset") >>

\* the calls end() makes, in order
end_calls == << measure("upgrade.reset"), measure("tag.reset"), measure("ping.end"),
               measure("upload.end"), measure("target.reset"), measure("metadata.end"),
               "metric.end" >>

Data_start ==
    /\ Len(lifecycle) < MaxLifecycle
    /\ lifecycle' = Append(lifecycle, [fn |-> "start", calls |-> start_calls])
    /\ UNCHANGED <<decodeVars, baselineVars>>

Data_end ==
    /\ Len(lifecycle) < MaxLifecycle
    /\ lifecycle' = Append(lifecycle, [fn |-> "end", calls |-> end_calls])
    /\ UNCHANGED <<decodeVars, baselineVars>>

NextData == Data_start \/ Data_end

\* start and end of the data module, called in any order
SpecData == Init /\ [][NextData]_vars

(* -------------------------- the baseline module ------------------------ *)

\* time() of the core: milliseconds since the start of the page
BaselineTimes == {5, 6}
\* coordinates handed to track; x and y never coincide, and none is zero
Xs == {1, 2}
Ys == {3}
\* event codes handed to track
TrackedEvents == {Event.Scroll, Event.MouseMove}

\* the object reset() gives to buffer
ZeroBuffer == [scrollX |-> 0, scrollY |-> 0, pointerX |-> 0, pointerY |-> 0]

\* reset() without the last assignment
reset_keepsUpdate(t) ==
    /\ state' = IF update THEN [time |-> t, event |-> Event.Baseline, data |-> buffer]
                          ELSE state
    /\ objects' = Append(objects, ZeroBuffer)
    /\ buffer' = Len(objects) + 1
    /\ update' = update

\* reset(), with t the value of time()
reset(t) ==
    /\ state' = IF update THEN [time |-> t, event |-> Event.Baseline, data |-> buffer]
                          ELSE state
    /\ objects' = Append(objects, ZeroBuffer)
    /\ buffer' = Len(objects) + 1
    /\ update' = FALSE

\* the switch of track() with the first break missing
track_fallthrough(event, x, y) ==
    /\ buffer # 0
    /\ objects' = [objects EXCEPT ![buffer] =
                      IF event = Event.Scroll
                      THEN [@ EXCEPT !.scrollX = x, !.scrollY = y,
                                     !.pointerX = x, !.pointerY = y]
                      ELSE [@ EXCEPT !.pointerX = x, !.pointerY = y]]
    /\ update' = TRUE
    /\ UNCHANGED <<state, buffer>>

\* track(event, x, y); with buffer null the first assignment raises a
\* TypeError and nothing changes
track(event, x, y) ==
    /\ buffer # 0
    /\ objects' = [objects EXCEPT ![buffer] =
                      IF event = Event.Scroll
                      THEN [@ EXCEPT !.scrollX = x, !.scrollY = y]
                      ELSE [@ EXCEPT !.pointerX = x, !.pointerY = y]]
    /\ update' = TRUE
    /\ UNCHANGED <<state, buffer>>

\* compute() without its condition
compute_always ==
    /\ emitted' = Append(emitted, Event.Baseline)
    /\ UNCHANGED <<state, buffer, update, objects>>

\* compute()
compute ==
    /\ emitted' = IF update THEN Append(emitted, Event.Baseline) ELSE emitted
    /\ UNCHANGED <<state, buffer, update, objects>>

Baseline_start ==
    /\ Len(ops) < MaxOps
    /\ \E t \in BaselineTimes : reset(t)
    /\ ops' = Append(ops, <<"start">>)
    /\ UNCHANGED <<emitted, decodeVars, dataVars>>

Baseline_reset ==
    /\ Len(ops) < MaxOps
    /\ \E t \in BaselineTimes : reset(t)
    /\ ops' = Append(ops, <<"reset">>)
    /\ UNCHANGED <<emitted, decodeVars, dataVars>>

Baseline_track ==
    /\ Len(ops) < MaxOps
    /\ \E event \in TrackedEvents, x \in Xs, y \in Ys :
          /\ track(event, x, y)
          /\ ops' = Append(ops, <<"track", event, x, y>>)
    /\ UNCHANGED <<emitted, decodeVars, dataVars>>

Baseline_compute ==
    /\ Len(ops) < MaxOps
    /\ compute
    /\ ops' = Append(ops, <<"compute">>)
    /\ UNCHANGED <<decodeVars, dataVars>>

Baseline_end ==
    /\ Len(ops) < MaxOps
    /\ \E t \in BaselineTimes : reset(t)
    /\ ops' = Append(ops, <<"end">>)
    /\ UNCHANGED <<emitted, decodeVars, dataVars>>

NextBaseline ==
    \/ Baseline_start
    \/ Baseline_reset
    \/ Baseline_track
    \/ Baseline_compute
    \/ Baseline_end

\* the functions of the baseline module, called in any order
SpecBaseline == Init /\ [][NextBaseline]_vars



(* ============================== properties ============================= *)

\* the category buckets a payload object holds
BucketsOf(obj) == DOMAIN obj \ {"timestamp", "envelope"}
\* number of times x occurs in the sequence s
Count(s, x) == Cardinality({n \in DOMAIN s : s[n] = x})
\* the buckets code c is routed to
BucketsFor(c) == {Cases[k].bucket : k \in CasesFor(c)}
\* code c is routed to bucket b
MapsTo(c, b) == b \in BucketsFor(c)
\* some case of the switch is labelled with code c
HasHandler(c) == BucketsFor(c) # {}
\* the decode call has parsed its input and checked the version
Checked == pc \in {"VersionChecked", "Reset", "Dispatching", "Done"} \/ error = "Invalid version"
\* the decode call has passed the version gate
Passed == pc \in {"VersionChecked", "Reset", "Dispatching", "Done"}

\* the compatibility rule of the version gate: equal major, equal minor,
\* patch at most one apart; a comparison with NaN is false
Compatible(incoming, running) ==
    /\ ~IsNaN(incoming.major) /\ ~IsNaN(running.major) /\ incoming.major[1] = running.major[1]
    /\ ~IsNaN(incoming.minor) /\ ~IsNaN(running.minor) /\ incoming.minor[1] = running.minor[1]
    /\ ~IsNaN(incoming.patch) /\ ~IsNaN(running.patch)
    /\ incoming.patch[1] - running.patch[1] \in {0 - 1, 0, 1}

\* C1: a payload whose envelope version is incompatible with the running
\* version makes decode raise at the version check, and then no bucket exists,
\* no category decoder and no layout.reset has been called, and nothing is
\* returned.
C1_IncompatibleRaisesEarly ==
    (Checked /\ ~Compatible(jsonVersion, codeVersion)) =>
        /\ pc = "Failed"
        /\ error = "Invalid version"
        /\ BucketsOf(Payload) = {}
        /\ \A n \in DOMAIN calls : calls[n] \notin Decoders \cup {"layout.reset"}
        /\ returned = <<>>

\* C2: decode passes the version gate exactly when the parsed versions have
\* equal major, equal minor and patch numbers at most one apart, whatever the
\* beta components are.
C2_GateIffCompatible ==
    Checked => (Passed <=> Compatible(jsonVersion, codeVersion))

\* When both patch numbers are numbers, the gate is passed exactly when the
\* rule holds: the gate and the rule part only on a patch that is NaN.
GateIffCompatibleForNumbers ==
    (Checked /\ ~IsNaN(jsonVersion.patch) /\ ~IsNaN(codeVersion.patch)) =>
        (Passed <=> Compatible(jsonVersion, codeVersion))

\* Whenever decode raises at the version check, no bucket exists, no category
\* decoder and no layout.reset has been called, and nothing is returned.
RaiseLeavesNothing ==
    error = "Invalid version" =>
        /\ pc = "Failed"
        /\ ~Compatible(jsonVersion, codeVersion)
        /\ BucketsOf(Payload) = {}
        /\ \A n \in DOMAIN calls : calls[n] \notin Decoders \cup {"layout.reset"}
        /\ returned = <<>>

\* the tokens of the input of the current call, a before p
InputTokens == Concat(input.text)
PrimaryTokens == input.text.a
SecondaryTokens == IF "p" \in DOMAIN input.text THEN input.text.p ELSE <<>>
\* the tokens of s whose timestamp is t, in the order of s
AtTime(s, t) == LET At(tok) == tok[1] = t IN SelectSeq(s, At)
\* the decode call has parsed its input and merged the channels
Merged == pc \in {"Parsed", "VersionChecked", "Reset", "Dispatching", "Done"} \/ error = "Invalid version"

\* C3: the tokens decode dispatches are the stable ascending sort by timestamp
\* of a ++ p (of a when p is absent): as many tokens as the input has,
\* timestamps never decrease, and the tokens of one timestamp are those of a in
\* their order in a followed by those of p in their order in p.
C3_StableMerge ==
    Merged =>
        /\ Len(encoded) = Len(InputTokens)
        /\ \A m, n \in DOMAIN encoded : m < n => encoded[m][1] <= encoded[n][1]
        /\ \A t \in Times : AtTime(encoded, t) = AtTime(PrimaryTokens, t) \o AtTime(SecondaryTokens, t)

\* C3 witness: decode has returned a payload whose input has differing tokens
\* of one timestamp in a and in p
C3_Witness ==
    /\ pc = "Done"
    /\ \E m \in DOMAIN PrimaryTokens, n \in DOMAIN SecondaryTokens :
            /\ PrimaryTokens[m][1] = SecondaryTokens[n][1]
            /\ PrimaryTokens[m] # SecondaryTokens[n]

\* the position in the token sequence the loop has reached
Dispatching == pc \in {"Reset", "Dispatching"} /\ idx <= Len(encoded)

\* C4: a token whose code has no handler does not make decode raise and leaves
\* every bucket as it is, and the loop goes on to the next token; every token
\* with a handler that follows it has its event in its bucket when decode
\* returns.
C4_UnknownCodeSkipped ==
    /\ [][(Dispatching /\ ~HasHandler(encoded[idx][2])) =>
            /\ heap' = heap
            /\ error' = "none"
            /\ pc' = "Dispatching"
            /\ idx' = idx + 1]_vars
    /\ [](pc = "Done" =>
            \A m, n \in DOMAIN encoded :
                (m < n /\ ~HasHandler(encoded[m][2]) /\ HasHandler(encoded[n][2])) =>
                    \E b \in BucketsOf(Payload) :
                        /\ MapsTo(encoded[n][2], b)
                        /\ \E q \in DOMAIN Payload[b] :
                            /\ Payload[b][q].time = encoded[n][1]
                            /\ Payload[b][q].event = encoded[n][2])

\* C4 witness: decode has returned a payload whose merged tokens hold a token
\* without a handler followed by one with a handler
C4_Witness ==
    /\ pc = "Done"
    /\ \E m, n \in DOMAIN encoded : m < n /\ ~HasHandler(encoded[m][2]) /\ HasHandler(encoded[n][2])
    /\ Len(console) = 1

\* C5: in a returned payload a bucket is present exactly when a token of the
\* input carries a code routed to it, and a present bucket is never empty.
C5_SparseBuckets ==
    \A r \in DOMAIN returned :
        LET obj == heap[returned[r].payload]
            toks == Concat(returned[r].input.text)
        IN /\ BucketsOf(obj) = UNION {BucketsFor(toks[n][2]) : n \in DOMAIN toks}
           /\ \A b \in BucketsOf(obj) : obj[b] # <<>>

\* C5 witness: a returned payload with the pointer bucket and without the
\* metric bucket
C5_Witness ==
    /\ returned # <<>>
    /\ "pointer" \in BucketsOf(heap[returned[1].payload])
    /\ "metric" \notin BucketsOf(heap[returned[1].payload])

C7_ResetOnceBeforeDecoders ==
    /\ Count(calls, "layout.reset") = (IF pc \in {"Reset", "Dispatching", "Done"} THEN 1 ELSE 0)
    /\ \A n \in DOMAIN calls :
            calls[n] \in Decoders => \E m \in 1..(n - 1) : calls[m] = "layout.reset"

\* C7 witness: decode has returned after a call of layout.decode
C7_Witness == pc = "Done" /\ \E n \in DOMAIN calls : calls[n] = "layout.decode"

\* the events decode pushes for the tokens of a raw input
EventsOf(inp) ==
    LET toks == Concat(inp.text)
    IN {Decoded(Switch(toks[n][2]), toks[n], inp) : n \in {m \in DOMAIN toks : Switch(toks[m][2]) # 0}}

\* the payload objects the caller or the running call holds contain only
\* events of their own input
OwnEventsOnly(obj, inp) == \A b \in BucketsOf(obj) : \A n \in DOMAIN obj[b] : obj[b][n] \in EventsOf(inp)

\* C8: of decode calls made one after the other, each payload holds only events
\* decoded from the tokens of its own input, and a payload that was returned is
\* not modified by a later call.
C8_NoLeakBetweenCalls ==
    /\ [](/\ \A r \in DOMAIN returned : OwnEventsOnly(heap[returned[r].payload], returned[r].input)
          /\ payload # 0 => OwnEventsOnly(Payload, input))
    /\ [][\A r \in DOMAIN returned :
            /\ returned'[r] = returned[r]
            /\ heap'[returned[r].payload] = heap[returned[r].payload]]_vars

\* C8 witness: two calls on different inputs have returned, the first payload
\* with two metric events and the second with one
C8_Witness ==
    /\ Len(returned) = 2
    /\ returned[1].input # returned[2].input
    /\ returned[1].payload # returned[2].payload
    /\ "metric" \in BucketsOf(heap[returned[1].payload])
    /\ "metric" \in BucketsOf(heap[returned[2].payload])
    /\ Len(heap[returned[1].payload].metric) = 2
    /\ Len(heap[returned[2].payload].metric) = 1

\* C9 as stated: two decode calls on the same input return payloads equal in
\* every field, and decode performs no I/O.
C9_Pure ==
    /\ \A q, r \in DOMAIN returned :
            returned[q].input = returned[r].input => heap[returned[q].payload] = heap[returned[r].payload]
    /\ console = <<>>

\* a payload object without its timestamp
ExceptTimestamp(obj) == [f \in DOMAIN obj \ {"timestamp"} |-> obj[f]]
\* the tokens of s without a handler, in the order of s
Unhandled(s) == LET None(tok) == ~HasHandler(tok[2]) IN SelectSeq(s, None)
\* the tokens without a handler of the calls that have returned, in call order
RECURSIVE LoggedBy(_)
LoggedBy(rs) ==
    IF rs = <<>> THEN <<>>
    ELSE LoggedBy(SubSeq(rs, 1, Len(rs) - 1)) \o Unhandled(sort(Concat(rs[Len(rs)].input.text)))

\* C9 amended: two decode calls on the same input return payloads equal in
\* every field but timestamp, which is the reading of the clock at the call;
\* the only output of decode is one console.error line for each token without
\* a handler, in dispatch order.
C9_PureButClockAndLog ==
    /\ \A q, r \in DOMAIN returned :
            returned[q].input = returned[r].input =>
                ExceptTimestamp(heap[returned[q].payload]) = ExceptTimestamp(heap[returned[r].payload])
    /\ \A r \in DOMAIN returned : heap[returned[r].payload].timestamp \in Clock
    /\ \A q, r \in DOMAIN returned :
            q < r => heap[returned[q].payload].timestamp <= heap[returned[r].payload].timestamp
    /\ payload # 0 => Payload.timestamp = now
    /\ console = LoggedBy(returned)
                 \o (IF pc \in {"Reset", "Dispatching"} THEN Unhandled(SubSeq(encoded, 1, idx - 1)) ELSE <<>>)

\* C9 witness: two calls on one input with a token without a handler and a
\* token with one have returned, at different readings of the clock
C9_Witness ==
    /\ Len(returned) = 2
    /\ returned[1].input = returned[2].input
    /\ heap[returned[1].payload].timestamp # heap[returned[2].payload].timestamp
    /\ BucketsOf(heap[returned[2].payload]) # {}
    /\ Len(console) = 2

\* positions of c in the string s
Positions(s, c) == {n \in DOMAIN s : s[n] = c}
\* positions where the beta delimiter starts in s
BetaPositions(s) == {n \in 1..(Len(s) - 1) : s[n] = "-" /\ s[n + 1] = "b"}
RECURSIVE Power10(_)
Power10(n) == IF n = 0 THEN 1 ELSE 10 * Power10(n - 1)
RECURSIVE Sum(_, _)
Sum(f, S) == IF S = {} THEN 0 ELSE LET x == CHOOSE y \in S : TRUE IN f[x] + Sum(f, S \ {x})
\* the integer a string denotes: after blanks and an optional sign, its leading
\* decimal digits by place value; NaN when there is none
IntegerValue(s) ==
    LET start == CHOOSE n \in 1..(Len(s) + 1) : (n = Len(s) + 1 \/ s[n] # " ") /\ \A m \in 1..(n - 1) : s[m] = " "
        signed == start <= Len(s) /\ s[start] \in {"+", "-"}
        first == IF signed THEN start + 1 ELSE start
        last == CHOOSE n \in (first - 1)..Len(s) :
                    /\ \A m \in first..n : IsDigit(s[m])
                    /\ (n = Len(s) \/ ~IsDigit(s[n + 1]))
        magnitude == Sum([m \in first..last |-> DigitValue[s[m]] * Power10(last - m)], first..last)
    IN IF last < first THEN NaN
       ELSE IF signed /\ s[start] = "-" THEN <<0 - magnitude>> ELSE <<magnitude>>

\* the version a string denotes
VersionOf(ver) ==
    LET dots == Positions(ver, ".")
    IN IF Cardinality(dots) # 2 THEN [major |-> <<0>>, minor |-> <<0>>, patch |-> <<0>>, beta |-> <<0>>]
       ELSE LET d1 == CHOOSE d \in dots : \A e \in dots : d <= e
                d2 == CHOOSE d \in dots : \A e \in dots : e <= d
                third == SubSeq(ver, d2 + 1, Len(ver))
                bs == BetaPositions(third)
            IN IF Cardinality(bs) = 1
               THEN LET b == CHOOSE n \in bs : TRUE
                    IN [major |-> IntegerValue(SubSeq(ver, 1, d1 - 1)),
                        minor |-> IntegerValue(SubSeq(ver, d1 + 1, d2 - 1)),
                        patch |-> IntegerValue(SubSeq(third, 1, b - 1)),
                        beta |-> IntegerValue(SubSeq(third, b + 2, Len(third)))]
               ELSE [major |-> IntegerValue(SubSeq(ver, 1, d1 - 1)),
                     minor |-> IntegerValue(SubSeq(ver, d1 + 1, d2 - 1)),
                     patch |-> IntegerValue(third),
                     beta |-> <<0>>]

\* C10: parseVersion returns the zero version for a string that does not have
\* exactly three dot-separated parts; otherwise major and minor are the integer
\* values of the first two parts, and the third part gives patch and beta when
\* the beta delimiter splits it in two, else patch alone with beta 0.
C10_ParseVersion ==
    Checked => /\ jsonVersion = VersionOf(Payload.envelope.version)
               /\ codeVersion = VersionOf(version)

\* C10 witness: the version check has parsed 1.2.3-b7
C10_Witness ==
    /\ Checked
    /\ Payload.envelope.version = <<"1", ".", "2", ".", "3", "-", "b", "7">>
    /\ jsonVersion = [major |-> <<1>>, minor |-> <<2>>, patch |-> <<3>>, beta |-> <<7>>]

(* ------------------------- claims on the data module ------------------- *)

\* both calls are made, and every x is called before every y
Before(seq, x, y) ==
    /\ \E i \in 1..Len(seq) : seq[i] = x
    /\ \E j \in 1..Len(seq) : seq[j] = y
    /\ \A i, j \in 1..Len(seq) : seq[i] = x /\ seq[j] = y => i < j

\* C17: every end() resets upgrade before it ends upload, ends upload before
\* it ends metadata, and calls metric.end last; every start() calls
\* metric.start first and upload.start before metadata.start
C17_LifecycleOrder ==
    \A n \in 1..Len(lifecycle) :
        LET made == lifecycle[n].calls
        IN  IF lifecycle[n].fn = "end"
            THEN /\ Before(made, "upgrade.reset", "upload.end")
                 /\ Before(made, "upload.end", "metadata.end")
                 /\ made[Len(made)] = "metric.end"
                 /\ \A i \in 1..(Len(made) - 1) : made[i] # "metric.end"
            ELSE /\ made[1] = "metric.start"
                 /\ \A i \in 2..Len(made) : made[i] # "metric.start"
                 /\ Before(made, "upload.start", "metadata.start")

\* start() and end() have both run, end() after start()
C17_Witness ==
    \E m, n \in 1..Len(lifecycle) :
        m < n /\ lifecycle[m].fn = "start" /\ lifecycle[n].fn = "end"

(* ----------------------- claims on the baseline module ----------------- *)

\* the calls that run reset()
Resets == {"start", "reset", "end"}

\* the name of the n-th call
Called(h, n) == h[n][1]

\* track was called after the last call that ran reset()
TrackedSince(h) ==
    \E i \in 1..Len(h) :
        /\ Called(h, i) = "track"
        /\ \A j \in (i + 1)..Len(h) : Called(h, j) \notin Resets

\* this step is a call of one of the functions fs
Calls(fs) == Len(ops') = Len(ops) + 1 /\ Called(ops', Len(ops')) \in fs

\* the calls so far begin with start
BeginsWithStart == ops # <<>> /\ Called(ops, 1) = "start"

\* C18: in a sequence of calls beginning with start, a reset publishes a new
\* Baseline record holding the buffered coordinates if and only if track was
\* called since the previous reset, and otherwise leaves state as it is;
\* after it the buffer is all zeros and update is false; compute emits a
\* Baseline event only when track was called since the last reset
C18_ResetPublishesTracked ==
    [][ BeginsWithStart =>
        /\ Calls(Resets) =>
             /\ IF TrackedSince(ops)
                THEN /\ state' # state
                     /\ state' # null
                     /\ state'.event = Event.Baseline
                     /\ state'.time \in BaselineTimes
                     /\ objects'[state'.data] = objects[buffer]
                ELSE state' = state
             /\ objects'[buffer'] = ZeroBuffer
             /\ update' = FALSE
        /\ Calls({"compute"}) =>
             /\ emitted' # emitted => TrackedSince(ops)
             /\ emitted' # emitted => emitted' = Append(emitted, Event.Baseline)
      ]_vars

\* a reset that followed a track has published the tracked coordinates, and
\* a compute before it has emitted
C18_Witness ==
    /\ Len(ops) >= 4
    /\ Called(ops, 1) = "start"
    /\ Called(ops, Len(ops) - 2) = "track"
    /\ Called(ops, Len(ops) - 1) = "compute"
    /\ Called(ops, Len(ops)) \in Resets
    /\ emitted # <<>>
    /\ state # null
    /\ objects[state.data] # ZeroBuffer
    /\ objects[buffer] = ZeroBuffer

\* C19: track with the Scroll code sets scrollX and scrollY of the buffer
\* and leaves pointerX and pointerY as they were; track with any other code
\* sets pointerX and pointerY and leaves scrollX and scrollY as they were;
\* neither changes the published state
C19_TrackFrame ==
    [][ Calls({"track"}) =>
        LET call == ops'[Len(ops')]
            before == objects[buffer]
            after == objects'[buffer']
        IN  /\ buffer' = buffer
            /\ IF call[2] = Event.Scroll
               THEN /\ after.scrollX = call[3]
                    /\ after.scrollY = call[4]
                    /\ after.pointerX = before.pointerX
                    /\ after.pointerY = before.pointerY
               ELSE /\ after.pointerX = call[3]
                    /\ after.pointerY = call[4]
                    /\ after.scrollX = before.scrollX
                    /\ after.scrollY = before.scrollY
            /\ state' = state
            /\ state # null => objects'[state.data] = objects[state.data]
      ]_vars

\* a state has been published, and after it a pointer position and then a
\* scroll position were tracked
C19_Witness ==
    /\ Len(ops) >= 2
    /\ Called(ops, Len(ops) - 1) = "track"
    /\ ops[Len(ops) - 1][2] = Event.MouseMove
    /\ Called(ops, Len(ops)) = "track"
    /\ ops[Len(ops)][2] = Event.Scroll
    /\ state # null
    /\ objects[buffer].pointerX # 0
    /\ objects[buffer].scrollX # 0

(* --------------------- claims on the dispatch of decode ---------------- *)

\* the event decode pushes for a token that has a handler
Image(tok, inp) == Decoded(CHOOSE k \in CasesFor(tok[2]) : \A m \in CasesFor(tok[2]) : k <= m, tok, inp)

\* the tokens of s routed to bucket b, in the order of s
RoutedTo(s, b) == LET To(tok) == MapsTo(tok[2], b) IN SelectSeq(s, To)

\* the events of the tokens of s
Images(s, inp) == [n \in 1..Len(s) |-> Image(s[n], inp)]

\* C12: when decode returns, every bucket holds the decoded images of exactly
\* the merged tokens whose code is routed to it, in merged order, nothing
\* dropped, repeated or reordered; the pointer and touch codes share the pointer
\* bucket and Discover and Mutation share the dom bucket, interleaved in
\* merged order
C12_BucketsInMergedOrder ==
    pc = "Done" =>
        \A b \in Buckets :
            LET routed == RoutedTo(encoded, b)
            IN  IF routed = <<>> THEN b \notin DOMAIN Payload
                ELSE b \in DOMAIN Payload /\ Payload[b] = Images(routed, input)

\* a payload whose dom bucket holds a Mutation event before a Discover event,
\* which the input lists in the other order
C12_Witness ==
    /\ pc = "Done"
    /\ "dom" \in DOMAIN Payload
    /\ Len(Payload.dom) = 2
    /\ Payload.dom[1].event = Event.Mutation
    /\ Payload.dom[2].event = Event.Discover
    /\ InputTokens[1][2] = Event.Discover

\* the codes of the Event enumeration
EventCodes == {Event[l] : l \in DOMAIN Event}

\* C13: no token whose code is a member of the Event enumeration reaches the
\* default branch of the switch, where it is logged and skipped
C13_EveryEventCodeHandled == \A n \in DOMAIN console : console[n][2] \notin EventCodes

\* the value of bucket b of a payload object, empty when the bucket is not there
BucketOf(obj, b) == IF b \in DOMAIN obj THEN obj[b] ELSE <<>>

\* C14: an iteration of the loop leaves every bucket as it is when the code
\* of its token has no handler, and otherwise appends one event at the end of
\* one bucket, which it creates when it is not there; it removes no bucket,
\* removes or replaces no element of a bucket, and changes no other bucket
C14_DispatchOnlyAppends ==
    [][ Dispatching =>
            LET before == heap[payload]
                after == heap'[payload]
                code == encoded[idx][2]
            IN  IF ~HasHandler(code) THEN after = before
                ELSE \E b \in Buckets :
                        /\ DOMAIN after = DOMAIN before \cup {b}
                        /\ Len(after[b]) = Len(BucketOf(before, b)) + 1
                        /\ SubSeq(after[b], 1, Len(after[b]) - 1) = BucketOf(before, b)
                        /\ \A f \in DOMAIN before \ {b} : after[f] = before[f]
      ]_vars

\* the loop has created a bucket and then appended to it
C14_Witness ==
    /\ pc = "Dispatching"
    /\ \E b \in BucketsOf(Payload) : Len(Payload[b]) = 2

\* the decode call is between the version check and its return
Looping == pc \in {"VersionChecked", "Reset", "Dispatching"}

\* C15: a decode call decodes the envelope once, before it merges the
\* channels and before it checks the version; the reset step and the steps of
\* the loop leave the envelope and the timestamp of the payload as they are,
\* and the envelope of the returned payload is the one decoded from token e
C15_EnvelopeOnce ==
    /\ [](Merged =>
            /\ Count(calls, "data.envelope") = 1
            /\ calls[1] = "data.envelope"
            /\ \A n \in DOMAIN calls : calls[n] \in {"concat", "sort"} => n > 1)
    /\ [](~Merged => Count(calls, "data.envelope") = 0)
    /\ [](pc = "Parsed" => jsonVersion = ZeroVersion /\ Count(calls, "data.envelope") = 1)
    /\ [][Looping => /\ heap'[payload'].envelope = heap[payload].envelope
                     /\ heap'[payload'].timestamp = heap[payload].timestamp]_vars
    /\ [](pc = "Done" => Payload.envelope = envelope(input.text.e))

\* decode has returned a payload after the reset and two steps of the loop
C15_Witness ==
    /\ pc = "Done"
    /\ Len(encoded) = 2
    /\ Count(calls, "layout.reset") = 1
    /\ Payload.envelope = envelope(input.text.e)
    /\ Payload.timestamp = now

\* the number of events in the buckets of a payload object
EventsIn(obj) == Sum([b \in BucketsOf(obj) |-> Len(obj[b])], BucketsOf(obj))

\* C16: when decode returns, the events in the buckets of the payload and the
\* tokens skipped for a code without a handler are together as many as the
\* tokens of a and p
C16_EveryTokenOnce ==
    pc = "Done" =>
        EventsIn(Payload) + Count(calls, "console.error")
            = Len(PrimaryTokens) + Len(SecondaryTokens)

\* decode has returned for an input with a token in a and a token in p, one
\* of them skipped
C16_Witness ==
    /\ pc = "Done"
    /\ Len(PrimaryTokens) = 1
    /\ Len(SecondaryTokens) = 1
    /\ EventsIn(Payload) = 1
    /\ Count(calls, "console.error") = 1

(* -------------------- claims on the termination of decode -------------- *)

\* the steps of a decode call from one state to the next; the loop is left
\* from Reset when there is no token
Successors ==
    [ Idle |-> {"Parsed", "Failed"},
      Parsed |-> {"VersionChecked", "Failed"},
      VersionChecked |-> {"Reset"},
      Reset |-> {"Dispatching", "Done"},
      Dispatching |-> {"Dispatching", "Done"},
      Done |-> {},
      Failed |-> {} ]

\* decode has been called and has neither returned nor raised
Running == pc \in {"Parsed", "VersionChecked", "Reset", "Dispatching"}

\* the input is JSON and its version is compatible with the running version
Acceptable ==
    /\ ~IsMalformed(input)
    /\ Compatible(parseVersion(envelope(input.text.e).version), parseVersion(version))

====
